---- MODULE Spec2Model ----
(***************************************************************************)
(* Model of auth/credential_store.go: the credential store (password and   *)
(* permission maps loaded from a JSON record stream), its hash cache and   *)
(* the authenticate-and-authorize gate AA.                                 *)
(*                                                                         *)
(* Strings that are passwords are modelled as tuples: the plaintext t is   *)
(* <<t>>, its bcrypt hash is <<"$2a$", t>>.  A Go map is a function over   *)
(* the usernames whose value is None for an absent key and Some(v) for a   *)
(* key mapped to v; an optional JSON key is written the same way.          *)
(*                                                                         *)
(* Spec is the store serving queries after its construction; SpecReload is *)
(* the store loaded again (Load) while it serves password checks.          *)
(***************************************************************************)
EXTENDS Integers, Sequences, FiniteSets, TLC

\* ---- bounds ------------------------------------------------------------
MaxRecs == 2
MaxLoads == 1
MaxPerms == 1
NumThreads == 2

\* ---- program constants -------------------------------------------------
AllUsers == "*"
PermAll == "all"
PermQuery == "query"
PermRemove == "remove"

\* ---- strings ------------------------------------------------------------
Plain(t) == <<t>>
Bcrypt(t) == <<"$2a$", t>>
IsBcrypt(s) == Len(s) = 2 /\ s[1] = "$2a$"

\* bcrypt.CompareHashAndPassword(hashed, password) = nil
CompareHashAndPassword(hashed, password) ==
    /\ IsBcrypt(hashed)
    /\ password = Plain(hashed[2])

\* ---- optional values ------------------------------------------------------
\* None where a map key (or a JSON key) is absent, Some(v) where it is present
\* with value v; Val gives the value of a present one.
None == {}
Some(v) == {v}
Val(o) == CHOOSE v \in o : TRUE

\* ---- input sets -----------------------------------------------------------
Usernames == {"", AllUsers, "bob"}
Passwords == {Plain(""), Plain("pw"), Bcrypt("pw")}
QueryPerms == {PermAll, PermQuery, PermRemove}
PermLists == UNION {[1..n -> QueryPerms] : n \in 0..MaxPerms}

\* A JSON object of the credential file: each key of Credential is optional.
Object(u, p, ps) == [username |-> u, password |-> p, perms |-> ps]
Objects ==
    { Object(Some("bob"), Some(Bcrypt("pw")), Some({PermAll})),
      Object(Some("bob"), Some(Plain("pw")), Some({PermQuery})),
      Object(Some("bob"), None, None),
      Object(Some(AllUsers), None, Some({PermQuery})),
      Object(None, None, Some({PermAll})) }

\* The reader handed to Load: the array's elements that decode, and how the
\* text ends after them: "]" (well formed), "malformed" (one more element,
\* which does not decode), "eof" (no closing bracket), "empty" (no first
\* token).  MaxRecs bounds the number of elements of the array.
Stream(items, end) == [items |-> items, end |-> end]
Streams ==
    {Stream(<<>>, "empty")} \cup
    { Stream(items, end) :
        items \in UNION {[1..n -> Objects] : n \in 0..MaxRecs},
        end \in {"]", "eof"} } \cup
    { Stream(items, "malformed") :
        items \in UNION {[1..n -> Objects] : n \in 0..(MaxRecs - 1)} }
NoStream == Stream(<<>>, "none")

\* c         the caller's *CredentialsStore: "nil" or "store"
\* store     c.store, username -> stored password
\* perms     c.perms, username -> set of permissions
\* UseCache  c.UseCache
\* hashCache c.hashCache.m, username -> set of verified passwords
\* loads     the number of Load calls made after construction
\* last      the last call made: its arguments, results and steps
\* mu        c.hashCache.mu, the reader/writer lock of the hash cache
\* th        the threads calling into the store, each one's call and position
\* ld        the Load call in progress on the live store, and its position
VARIABLES c, store, perms, UseCache, hashCache, loads, last, mu, th, ld

vars == <<c, store, perms, UseCache, hashCache, loads, last, mu, th, ld>>

\* A Go map over the usernames, with no key.
EmptyMap == [u \in Usernames |-> None]

\* ---- HashCache ------------------------------------------------------------
HashCacheCheck(m, username, hash) ==
    IF m[username] = None THEN FALSE ELSE hash \in Val(m[username])

\* Store that creates the per-user set and leaves the hash out of it.
HashCacheStoreForgets(m, username, hash) ==
    IF m[username] = None THEN [m EXCEPT ![username] = Some({})] ELSE m

HashCacheStore(m, username, hash) ==
    LET m1 == IF m[username] = None THEN [m EXCEPT ![username] = Some({}) ] ELSE m
    IN  [m1 EXCEPT ![username] = Some(Val(m1[username]) \cup {hash})]

\* Store, statement by statement: the per-user set made when the username has
\* none, then the hash added to it.
HashCacheMake(m, username) ==
    IF m[username] = None THEN [m EXCEPT ![username] = Some({})] ELSE m

HashCacheInsert(m, username, hash) ==
    [m EXCEPT ![username] = Some(Val(m[username]) \cup {hash})]

\* ---- sync.RWMutex ----------------------------------------------------------
\* RLock blocks while a writer is inside or has called Lock.
MuCanRLock(m) == m.writer = {} /\ m.pending = {}

MuRLock(m, t) == [m EXCEPT !.readers = @ \cup {t}]

\* RUnlock that leaves the reader registered.
MuRUnlockKeeps(m, t) == m

MuRUnlock(m, t) == [m EXCEPT !.readers = @ \ {t}]

\* Lock announces the writer, which then waits for the lock to be free.
MuAnnounce(m, t) == [m EXCEPT !.pending = @ \cup {t}]

\* Lock that does not wait for the readers to leave.
MuCanLockIgnoresReaders(m) == m.writer = {}

MuCanLock(m) == m.readers = {} /\ m.writer = {}

MuLock(m, t) == [m EXCEPT !.writer = {t}, !.pending = @ \ {t}]

MuUnlock(m, t) == [m EXCEPT !.writer = {}]

\* ---- Load -------------------------------------------------------------------
ZeroCred == [Username |-> "", Password |-> Plain(""), Perms |-> {}]

\* dec.Decode(&cred): only the keys present in the object are assigned.
Decode(cred, obj) ==
    [Username |-> IF obj.username = None THEN cred.Username ELSE Val(obj.username),
     Password |-> IF obj.password = None THEN cred.Password ELSE Val(obj.password),
     Perms    |-> IF obj.perms = None THEN cred.Perms ELSE Val(obj.perms)]

\* The loop over the elements that decode, from element i on.
RECURSIVE LoadLoop(_, _, _, _, _)
LoadLoop(st, pm, cred, items, i) ==
    IF i > Len(items) THEN [store |-> st, perms |-> pm]
    ELSE LET next == Decode(cred, items[i])
         IN  LoadLoop([st EXCEPT ![next.Username] = Some(next.Password)],
                      [pm EXCEPT ![next.Username] = Some(next.Perms)],
                      next, items, i + 1)

LoadRun(st, pm, stream) ==
    IF stream.end = "empty"
    THEN [store |-> st, perms |-> pm, err |-> TRUE]
    ELSE LET r == LoadLoop(st, pm, ZeroCred, stream.items, 1)
         IN  [store |-> r.store, perms |-> r.perms, err |-> stream.end # "]"]

\* ---- queries ----------------------------------------------------------------
\* Check that drops the ok of the map lookup: an unknown username has the
\* empty stored password.
CheckRunIgnoresOk(st, useCache, m, username, password) ==
    LET pw == IF st[username] = None THEN Plain("") ELSE Val(st[username])
    IN  IF password = pw
        THEN [ret |-> TRUE, trace |-> <<"store", "equal">>, m |-> m]
        ELSE IF useCache /\ HashCacheCheck(m, username, password)
        THEN [ret |-> TRUE, trace |-> <<"store", "equal", "cache">>, m |-> m]
        ELSE IF ~CompareHashAndPassword(pw, password)
        THEN [ret |-> FALSE, trace |-> <<"store", "equal", "bcrypt">>, m |-> m]
        ELSE [ret |-> TRUE, trace |-> <<"store", "equal", "bcrypt", "Store">>,
              m |-> HashCacheStore(m, username, password)]

\* Check that also remembers a password equal to the stored value.
CheckRunCachesEqual(st, useCache, m, username, password) ==
    IF st[username] = None
    THEN [ret |-> FALSE, trace |-> <<"store">>, m |-> m]
    ELSE IF password = Val(st[username])
    THEN [ret |-> TRUE, trace |-> <<"store", "equal", "Store">>,
          m |-> HashCacheStore(m, username, password)]
    ELSE IF useCache /\ HashCacheCheck(m, username, password)
    THEN [ret |-> TRUE, trace |-> <<"store", "equal", "cache">>, m |-> m]
    ELSE LET pre == <<"store", "equal">> \o
                    (IF useCache THEN <<"cache">> ELSE <<>>) \o <<"bcrypt">>
         IN  IF ~CompareHashAndPassword(Val(st[username]), password)
             THEN [ret |-> FALSE, trace |-> pre, m |-> m]
             ELSE [ret |-> TRUE, trace |-> pre \o <<"Store">>,
                   m |-> HashCacheStore(m, username, password)]

\* Check that inserts into the hash cache before it compares the hash.
CheckRunStoresFirst(st, useCache, m, username, password) ==
    IF st[username] = None
    THEN [ret |-> FALSE, trace |-> <<"store">>, m |-> m]
    ELSE IF password = Val(st[username])
    THEN [ret |-> TRUE, trace |-> <<"store", "equal">>, m |-> m]
    ELSE IF useCache /\ HashCacheCheck(m, username, password)
    THEN [ret |-> TRUE, trace |-> <<"store", "equal", "cache">>, m |-> m]
    ELSE LET pre == <<"store", "equal">> \o
                    (IF useCache THEN <<"cache">> ELSE <<>>) \o <<"Store", "bcrypt">>
         IN  [ret |-> CompareHashAndPassword(Val(st[username]), password),
              trace |-> pre, m |-> HashCacheStore(m, username, password)]

\* The steps of the trace: "store" the lookup of the username, "equal" the
\* comparison with the stored value, "cache" the lookup in the hash cache,
\* "bcrypt" the hash comparison, "Store" the insertion into the hash cache.
CheckRun(st, useCache, m, username, password) ==
    IF st[username] = None
    THEN [ret |-> FALSE, trace |-> <<"store">>, m |-> m]
    ELSE IF password = Val(st[username])
    THEN [ret |-> TRUE, trace |-> <<"store", "equal">>, m |-> m]
    ELSE IF useCache /\ HashCacheCheck(m, username, password)
    THEN [ret |-> TRUE, trace |-> <<"store", "equal", "cache">>, m |-> m]
    ELSE LET pre == <<"store", "equal">> \o
                    (IF useCache THEN <<"cache">> ELSE <<>>) \o <<"bcrypt">>
         IN  IF ~CompareHashAndPassword(Val(st[username]), password)
             THEN [ret |-> FALSE, trace |-> pre, m |-> m]
             ELSE [ret |-> TRUE, trace |-> pre \o <<"Store">>,
                   m |-> HashCacheStore(m, username, password)]

PasswordRun(st, username) ==
    IF st[username] # None
    THEN [pw |-> Val(st[username]), ok |-> TRUE]
    ELSE [pw |-> Plain(""), ok |-> FALSE]

\* HasPerm that looks at the user's own set only.
HasPermNoWildcard(pm, username, perm) ==
    IF pm[username] # None /\ perm \in Val(pm[username]) THEN TRUE
    ELSE FALSE

HasPerm(pm, username, perm) ==
    IF pm[username] # None /\ perm \in Val(pm[username]) THEN TRUE
    ELSE IF pm[AllUsers] # None /\ perm \in Val(pm[AllUsers]) THEN TRUE
    ELSE FALSE

\* HasAnyPerm that lets the all-permissions sentinel satisfy any list.
HasAnyPermSentinel(pm, username, perm) ==
    \/ \E i \in 1..Len(perm) : HasPerm(pm, username, perm[i])
    \/ HasPerm(pm, username, PermAll)

HasAnyPerm(pm, username, perm) ==
    \E i \in 1..Len(perm) : HasPerm(pm, username, perm[i])

\* AA with the nil test placed after the wildcard lookup.
AARunNilAfterLookup(recv, st, pm, useCache, m, username, password, perm) ==
    IF HasAnyPerm(pm, AllUsers, <<perm, PermAll>>)
    THEN [ret |-> TRUE, trace |-> <<"HasAnyPerm">>, m |-> m]
    ELSE IF recv = "nil"
    THEN [ret |-> TRUE, trace |-> <<"HasAnyPerm", "nil">>, m |-> m]
    ELSE IF username = ""
    THEN [ret |-> FALSE, trace |-> <<"HasAnyPerm", "nil", "username">>, m |-> m]
    ELSE LET chk == CheckRun(st, useCache, m, username, password)
             pre == <<"HasAnyPerm", "nil", "username", "Check">> \o chk.trace
         IN  IF ~chk.ret
             THEN [ret |-> FALSE, trace |-> pre, m |-> chk.m]
             ELSE [ret |-> HasAnyPerm(pm, username, <<perm, PermAll>>),
                   trace |-> pre \o <<"HasAnyPerm">>, m |-> chk.m]

\* AA that authenticates before it looks at the wildcard identity.
AARunCheckFirst(recv, st, pm, useCache, m, username, password, perm) ==
    IF recv = "nil"
    THEN [ret |-> TRUE, trace |-> <<"nil">>, m |-> m]
    ELSE LET chk == CheckRun(st, useCache, m, username, password)
             pre == <<"nil", "Check">> \o chk.trace \o <<"HasAnyPerm">>
         IN  IF HasAnyPerm(pm, AllUsers, <<perm, PermAll>>)
             THEN [ret |-> TRUE, trace |-> pre, m |-> chk.m]
             ELSE IF username = ""
             THEN [ret |-> FALSE, trace |-> pre \o <<"username">>, m |-> chk.m]
             ELSE IF ~chk.ret
             THEN [ret |-> FALSE, trace |-> pre \o <<"username">>, m |-> chk.m]
             ELSE [ret |-> HasAnyPerm(pm, username, <<perm, PermAll>>),
                   trace |-> pre \o <<"username", "HasAnyPerm">>, m |-> chk.m]

\* AA that does not look at what Check returned.
AARunIgnoresCheck(recv, st, pm, useCache, m, username, password, perm) ==
    IF recv = "nil"
    THEN [ret |-> TRUE, trace |-> <<"nil">>, m |-> m]
    ELSE IF HasAnyPerm(pm, AllUsers, <<perm, PermAll>>)
    THEN [ret |-> TRUE, trace |-> <<"nil", "HasAnyPerm">>, m |-> m]
    ELSE IF username = ""
    THEN [ret |-> FALSE, trace |-> <<"nil", "HasAnyPerm", "username">>, m |-> m]
    ELSE LET chk == CheckRun(st, useCache, m, username, password)
             pre == <<"nil", "HasAnyPerm", "username", "Check">> \o chk.trace
         IN  [ret |-> HasAnyPerm(pm, username, <<perm, PermAll>>),
              trace |-> pre \o <<"HasAnyPerm">>, m |-> chk.m]

\* AA that asks for a username before it looks at the wildcard's grants.
AARunUsernameFirst(recv, st, pm, useCache, m, username, password, perm) ==
    IF recv = "nil"
    THEN [ret |-> TRUE, trace |-> <<"nil">>, m |-> m]
    ELSE IF username = ""
    THEN [ret |-> FALSE, trace |-> <<"nil", "username">>, m |-> m]
    ELSE IF HasAnyPerm(pm, AllUsers, <<perm, PermAll>>)
    THEN [ret |-> TRUE, trace |-> <<"nil", "username", "HasAnyPerm">>, m |-> m]
    ELSE LET chk == CheckRun(st, useCache, m, username, password)
             pre == <<"nil", "username", "HasAnyPerm", "Check">> \o chk.trace
         IN  IF ~chk.ret
             THEN [ret |-> FALSE, trace |-> pre, m |-> chk.m]
             ELSE [ret |-> HasAnyPerm(pm, username, <<perm, PermAll>>),
                   trace |-> pre \o <<"HasAnyPerm">>, m |-> chk.m]

\* AA without the test for an empty username.
AARunNoUsernameTest(recv, st, pm, useCache, m, username, password, perm) ==
    IF recv = "nil"
    THEN [ret |-> TRUE, trace |-> <<"nil">>, m |-> m]
    ELSE IF HasAnyPerm(pm, AllUsers, <<perm, PermAll>>)
    THEN [ret |-> TRUE, trace |-> <<"nil", "HasAnyPerm">>, m |-> m]
    ELSE LET chk == CheckRun(st, useCache, m, username, password)
             pre == <<"nil", "HasAnyPerm", "Check">> \o chk.trace
         IN  IF ~chk.ret
             THEN [ret |-> FALSE, trace |-> pre, m |-> chk.m]
             ELSE [ret |-> HasAnyPerm(pm, username, <<perm, PermAll>>),
                   trace |-> pre \o <<"HasAnyPerm">>, m |-> chk.m]

\* The steps of the trace: "nil" the test of the receiver, "HasAnyPerm" a
\* permission lookup, "username" the test for an empty username, "Check" the
\* password check, followed by the steps Check took.
AARun(recv, st, pm, useCache, m, username, password, perm) ==
    IF recv = "nil"
    THEN [ret |-> TRUE, trace |-> <<"nil">>, m |-> m]
    ELSE IF HasAnyPerm(pm, AllUsers, <<perm, PermAll>>)
    THEN [ret |-> TRUE, trace |-> <<"nil", "HasAnyPerm">>, m |-> m]
    ELSE IF username = ""
    THEN [ret |-> FALSE, trace |-> <<"nil", "HasAnyPerm", "username">>, m |-> m]
    ELSE LET chk == CheckRun(st, useCache, m, username, password)
             pre == <<"nil", "HasAnyPerm", "username", "Check">> \o chk.trace
         IN  IF ~chk.ret
             THEN [ret |-> FALSE, trace |-> pre, m |-> chk.m]
             ELSE [ret |-> HasAnyPerm(pm, username, <<perm, PermAll>>),
                   trace |-> pre \o <<"HasAnyPerm">>, m |-> chk.m]

\* ---- request wrappers -----------------------------------------------------------
\* What b.BasicAuth() returns: username, password and whether the request
\* carries credentials.
BasicAuthers ==
    [username : Usernames, password : Passwords, ok : BOOLEAN]

CheckRequestRun(st, useCache, m, b) ==
    IF ~b.ok
    THEN [ret |-> FALSE, trace |-> <<"BasicAuth">>, m |-> m]
    ELSE LET chk == CheckRun(st, useCache, m, b.username, b.password)
         IN  [ret |-> chk.ret, trace |-> <<"BasicAuth", "Check">> \o chk.trace,
              m |-> chk.m]

\* HasPermRequest that does not look at the ok of BasicAuth.
HasPermRequestRunIgnoresOk(pm, b, perm) ==
    [ret |-> HasPerm(pm, b.username, perm), trace |-> <<"BasicAuth", "HasPerm">>]

HasPermRequestRun(pm, b, perm) ==
    IF ~b.ok
    THEN [ret |-> FALSE, trace |-> <<"BasicAuth">>]
    ELSE [ret |-> HasPerm(pm, b.username, perm),
          trace |-> <<"BasicAuth", "HasPerm">>]

\* ---- threads, the lock and the loader at rest ------------------------------------
Threads == 1..NumThreads

\* The zero sync.RWMutex: the readers and the writer inside, and the writers
\* that called Lock and wait for the readers to leave.
MuFree == [readers |-> {}, writer |-> {}, pending |-> {}]

\* A thread that has not made its call.
ThIdle ==
    [pc |-> "idle", op |-> "", username |-> "", password |-> Plain(""),
     hit |-> FALSE, ret |-> FALSE]

\* No Load in progress.
LdIdle ==
    [pc |-> "idle", stream |-> NoStream, i |-> 0, cred |-> ZeroCred,
     pre |-> <<EmptyMap, EmptyMap>>, post |-> <<EmptyMap, EmptyMap>>]

\* ---- the record of the last call ----------------------------------------
\* op and its arguments, what it returned (ret, err, pw), the steps it took
\* (trace) and whether the hash cache held (username, password) when it began.
Call(op, username, password, perm, stream, ret, err, pw, trace, cached) ==
    [op |-> op, username |-> username, password |-> password, perm |-> perm,
     stream |-> stream, ret |-> ret, err |-> err, pw |-> pw, trace |-> trace,
     cached |-> cached]

\* ---- construction ---------------------------------------------------------
\* NewCredentialsStore()
InitNew ==
    /\ c = "store"
    /\ store = EmptyMap
    /\ perms = EmptyMap
    /\ last = Call("NewCredentialsStore", "", Plain(""), <<>>, NoStream,
                   TRUE, FALSE, Plain(""), <<>>, FALSE)

\* NewCredentialsStoreFromFile(path) when os.Open fails: (nil, err)
InitOpenFails ==
    /\ c = "nil"
    /\ store = EmptyMap
    /\ perms = EmptyMap
    /\ last = Call("NewCredentialsStoreFromFile", "", Plain(""), <<>>, NoStream,
                   FALSE, TRUE, Plain(""), <<>>, FALSE)

\* NewCredentialsStoreFromFile(path) when the file opens: (c, c.Load(f))
InitFromFile ==
    \E stream \in Streams :
      LET r == LoadRun(EmptyMap, EmptyMap, stream)
      IN  /\ c = "store"
          /\ store = r.store
          /\ perms = r.perms
          /\ last = Call("NewCredentialsStoreFromFile", "", Plain(""), <<>>,
                         stream, ~r.err, r.err, Plain(""), <<>>, FALSE)

Init ==
    /\ InitNew \/ InitOpenFails \/ InitFromFile
    /\ hashCache = EmptyMap
    /\ UseCache = TRUE
    /\ loads = 0
    /\ mu = MuFree
    /\ th = [t \in Threads |-> ThIdle]
    /\ ld = LdIdle

\* ---- operations -------------------------------------------------------------
Load ==
    /\ c = "store"
    /\ loads < MaxLoads
    /\ \E stream \in Streams :
         LET r == LoadRun(store, perms, stream)
         IN  /\ store' = r.store
             /\ perms' = r.perms
             /\ last' = Call("Load", "", Plain(""), <<>>, NoStream,
                             ~r.err, r.err, Plain(""), <<>>, FALSE)
    /\ loads' = loads + 1
    /\ UNCHANGED <<c, UseCache, hashCache, mu, th, ld>>

SetUseCache ==
    /\ c = "store"
    /\ \E b \in BOOLEAN :
         /\ UseCache' = b
         /\ last' = Call("SetUseCache", "", Plain(""), <<>>, NoStream,
                         b, FALSE, Plain(""), <<>>, FALSE)
    /\ UNCHANGED <<c, store, perms, hashCache, loads, mu, th, ld>>

Check ==
    /\ c = "store"
    /\ \E username \in Usernames, password \in Passwords :
         LET r == CheckRun(store, UseCache, hashCache, username, password)
         IN  /\ hashCache' = r.m
             /\ last' = Call("Check", username, password, <<>>, NoStream,
                             r.ret, FALSE, Plain(""), r.trace,
                             HashCacheCheck(hashCache, username, password))
    /\ UNCHANGED <<c, store, perms, UseCache, loads, mu, th, ld>>

Password ==
    /\ c = "store"
    /\ \E username \in Usernames :
         LET r == PasswordRun(store, username)
         IN  last' = Call("Password", username, Plain(""), <<>>, NoStream,
                          r.ok, FALSE, r.pw, <<>>, FALSE)
    /\ UNCHANGED <<c, store, perms, UseCache, hashCache, loads, mu, th, ld>>

HasPermCall ==
    /\ c = "store"
    /\ \E username \in Usernames, perm \in QueryPerms :
         last' = Call("HasPerm", username, Plain(""), <<perm>>, NoStream,
                      HasPerm(perms, username, perm), FALSE, Plain(""), <<>>, FALSE)
    /\ UNCHANGED <<c, store, perms, UseCache, hashCache, loads, mu, th, ld>>

HasAnyPermCall ==
    /\ c = "store"
    /\ \E username \in Usernames, perm \in PermLists :
         last' = Call("HasAnyPerm", username, Plain(""), perm, NoStream,
                      HasAnyPerm(perms, username, perm), FALSE, Plain(""), <<>>, FALSE)
    /\ UNCHANGED <<c, store, perms, UseCache, hashCache, loads, mu, th, ld>>

AA ==
    /\ \E username \in Usernames, password \in Passwords, perm \in QueryPerms :
         LET r == AARun(c, store, perms, UseCache, hashCache,
                        username, password, perm)
         IN  /\ hashCache' = r.m
             /\ last' = Call("AA", username, password, <<perm>>, NoStream,
                             r.ret, FALSE, Plain(""), r.trace,
                             HashCacheCheck(hashCache, username, password))
    /\ UNCHANGED <<c, store, perms, UseCache, loads, mu, th, ld>>

CheckRequest ==
    /\ c = "store"
    /\ \E b \in BasicAuthers :
         LET r == CheckRequestRun(store, UseCache, hashCache, b)
         IN  /\ hashCache' = r.m
             /\ last' = [present |-> b.ok] @@
                         Call("CheckRequest", b.username, b.password, <<>>,
                              NoStream, r.ret, FALSE, Plain(""), r.trace,
                              HashCacheCheck(hashCache, b.username, b.password))
    /\ UNCHANGED <<c, store, perms, UseCache, loads, mu, th, ld>>

HasPermRequest ==
    /\ c = "store"
    /\ \E b \in BasicAuthers, perm \in QueryPerms :
         LET r == HasPermRequestRun(perms, b, perm)
         IN  last' = [present |-> b.ok] @@
                     Call("HasPermRequest", b.username, b.password, <<perm>>,
                          NoStream, r.ret, FALSE, Plain(""), r.trace, FALSE)
    /\ UNCHANGED <<c, store, perms, UseCache, hashCache, loads, mu, th, ld>>

\* ---- threads calling into the hash cache and Check ---------------------------
\* The file the store of the threads was constructed from; the caller sets
\* UseCache before the threads start.
ThreadsStream ==
    Stream(<<Object(Some("bob"), Some(Bcrypt("pw")), Some({PermAll})),
             Object(Some(AllUsers), None, Some({PermQuery}))>>, "]")

\* The (username, password) arguments of the threads' calls.
ThreadCalls ==
    {<<"bob", Plain("pw")>>, <<"bob", Plain("")>>, <<AllUsers, Plain("pw")>>}

InitThreads ==
    LET r == LoadRun(EmptyMap, EmptyMap, ThreadsStream)
    IN  /\ c = "store"
        /\ store = r.store
        /\ perms = r.perms
        /\ last = Call("NewCredentialsStoreFromFile", "", Plain(""), <<>>,
                       ThreadsStream, ~r.err, r.err, Plain(""), <<>>, FALSE)
        /\ hashCache = EmptyMap
        /\ UseCache \in BOOLEAN
        /\ loads = 0
        /\ mu = MuFree
        /\ th = [t \in Threads |-> ThIdle]
        /\ ld = LdIdle

Goto(t, pc) == [th EXCEPT ![t].pc = pc]

Return(t, ret) == [th EXCEPT ![t].pc = "done", ![t].ret = ret, ![t].hit = FALSE]

\* a thread calls HashCache.Check(username, hash)
StartHashCacheCheck(t) ==
    /\ th[t].pc = "idle"
    /\ \E call \in ThreadCalls :
         th' = [th EXCEPT ![t] = [ThIdle EXCEPT !.pc = "RLock",
                                                !.op = "HashCache.Check",
                                                !.username = call[1],
                                                !.password = call[2]]]
    /\ UNCHANGED <<c, store, perms, UseCache, hashCache, loads, last, mu, ld>>

\* a thread calls HashCache.Store(username, hash)
StartHashCacheStore(t) ==
    /\ th[t].pc = "idle"
    /\ \E call \in ThreadCalls :
         th' = [th EXCEPT ![t] = [ThIdle EXCEPT !.pc = "Lock",
                                                !.op = "HashCache.Store",
                                                !.username = call[1],
                                                !.password = call[2]]]
    /\ UNCHANGED <<c, store, perms, UseCache, hashCache, loads, last, mu, ld>>

\* a thread calls CredentialsStore.Check(username, password) and runs it up to
\* the cache lookup: the username's lookup and the comparison with the stored
\* value
StartCheck(t) ==
    /\ th[t].pc = "idle"
    /\ c = "store"
    /\ \E call \in ThreadCalls :
         LET me == [ThIdle EXCEPT !.op = "Check", !.username = call[1],
                                  !.password = call[2]]
         IN  th' = [th EXCEPT ![t] =
                      IF store[call[1]] = None
                      THEN [me EXCEPT !.pc = "done", !.ret = FALSE]
                      ELSE IF call[2] = Val(store[call[1]])
                      THEN [me EXCEPT !.pc = "done", !.ret = TRUE]
                      ELSE IF UseCache
                      THEN [me EXCEPT !.pc = "RLock"]
                      ELSE [me EXCEPT !.pc = "bcrypt"]]
    /\ UNCHANGED <<c, store, perms, UseCache, hashCache, loads, last, mu, ld>>

\* h.mu.RLock()
RLock(t) ==
    /\ th[t].pc = "RLock"
    /\ MuCanRLock(mu)
    /\ mu' = MuRLock(mu, t)
    /\ th' = Goto(t, "lookup")
    /\ UNCHANGED <<c, store, perms, UseCache, hashCache, loads, last, ld>>

\* m, ok := h.m[username]; if !ok { return false }
Lookup(t) ==
    /\ th[t].pc = "lookup"
    /\ th' = IF hashCache[th[t].username] = None
             THEN [th EXCEPT ![t].pc = "RUnlock", ![t].hit = FALSE]
             ELSE Goto(t, "member")
    /\ UNCHANGED <<c, store, perms, UseCache, hashCache, loads, last, mu, ld>>

\* _, ok = m[hash]; return ok
Member(t) ==
    /\ th[t].pc = "member"
    /\ th' = [th EXCEPT ![t].pc = "RUnlock",
                        ![t].hit = th[t].password \in Val(hashCache[th[t].username])]
    /\ UNCHANGED <<c, store, perms, UseCache, hashCache, loads, last, mu, ld>>

\* RUnlock that returns from Check with false when the cache missed.
RUnlockMissDenies(t) ==
    /\ th[t].pc = "RUnlock"
    /\ mu' = MuRUnlock(mu, t)
    /\ th' = Return(t, th[t].hit)
    /\ UNCHANGED <<c, store, perms, UseCache, hashCache, loads, last, ld>>

\* the deferred h.mu.RUnlock(), and the return to the caller: HashCache.Check
\* returns what it found, Check returns true on a hit and goes on to the hash
\* comparison on a miss
RUnlock(t) ==
    /\ th[t].pc = "RUnlock"
    /\ mu' = MuRUnlock(mu, t)
    /\ th' = IF th[t].op = "HashCache.Check" THEN Return(t, th[t].hit)
             ELSE IF th[t].hit THEN Return(t, TRUE)
             ELSE Goto(t, "bcrypt")
    /\ UNCHANGED <<c, store, perms, UseCache, hashCache, loads, last, ld>>

\* bcrypt.CompareHashAndPassword, and Check's return on a mismatch
Compare(t) ==
    /\ th[t].pc = "bcrypt"
    /\ th' = IF CompareHashAndPassword(Val(store[th[t].username]), th[t].password)
             THEN Goto(t, "Lock")
             ELSE Return(t, FALSE)
    /\ UNCHANGED <<c, store, perms, UseCache, hashCache, loads, last, mu, ld>>

\* h.mu.Lock(): the call
Lock(t) ==
    /\ th[t].pc = "Lock"
    /\ mu' = MuAnnounce(mu, t)
    /\ th' = Goto(t, "wait")
    /\ UNCHANGED <<c, store, perms, UseCache, hashCache, loads, last, ld>>

\* h.mu.Lock(): the return
Locked(t) ==
    /\ th[t].pc = "wait"
    /\ MuCanLock(mu)
    /\ mu' = MuLock(mu, t)
    /\ th' = Goto(t, "make")
    /\ UNCHANGED <<c, store, perms, UseCache, hashCache, loads, last, ld>>

\* if !ok { h.m[username] = make(map[string]struct{}) }
Make(t) ==
    /\ th[t].pc = "make"
    /\ hashCache' = HashCacheMake(hashCache, th[t].username)
    /\ th' = Goto(t, "insert")
    /\ UNCHANGED <<c, store, perms, UseCache, loads, last, mu, ld>>

\* h.m[username][hash] = struct{}{}
Insert(t) ==
    /\ th[t].pc = "insert"
    /\ hashCache' = HashCacheInsert(hashCache, th[t].username, th[t].password)
    /\ th' = Goto(t, "Unlock")
    /\ UNCHANGED <<c, store, perms, UseCache, loads, last, mu, ld>>

\* the deferred h.mu.Unlock(), and the return to the caller
Unlock(t) ==
    /\ th[t].pc = "Unlock"
    /\ mu' = MuUnlock(mu, t)
    /\ th' = Return(t, TRUE)
    /\ UNCHANGED <<c, store, perms, UseCache, hashCache, loads, last, ld>>

\* one step of a call in progress
ThreadStep(t) ==
    \/ RLock(t)
    \/ Lookup(t)
    \/ Member(t)
    \/ RUnlock(t)
    \/ Compare(t)
    \/ Lock(t)
    \/ Locked(t)
    \/ Make(t)
    \/ Insert(t)
    \/ Unlock(t)

\* ---- Load on a store that other threads read ------------------------------------
\* The store before the reload: constructed from a file of one record, with
\* all its keys.
InitLive ==
    /\ \E obj \in {o \in Objects : None \notin {o.username, o.password, o.perms}} :
         LET stream == Stream(<<obj>>, "]")
             r == LoadRun(EmptyMap, EmptyMap, stream)
         IN  /\ store = r.store
             /\ perms = r.perms
             /\ last = Call("NewCredentialsStoreFromFile", "", Plain(""), <<>>,
                            stream, ~r.err, r.err, Plain(""), <<>>, FALSE)
    /\ c = "store"
    /\ hashCache = EmptyMap
    /\ UseCache = TRUE
    /\ loads = 0
    /\ mu = MuFree
    /\ th = [t \in Threads |-> ThIdle]
    /\ ld = LdIdle

\* what a step of Load leaves in last
LoadStepped(err) ==
    Call("Load", "", Plain(""), <<>>, NoStream, ~err, err, Plain(""), <<>>, FALSE)

\* Load is called and reads the opening bracket; ld.pre and ld.post are the
\* mappings before the call and after its return.
LoadToken ==
    /\ c = "store"
    /\ ld.pc = "idle"
    /\ loads < MaxLoads
    /\ loads' = loads + 1
    /\ \E stream \in Streams :
         LET r == LoadRun(store, perms, stream)
         IN  /\ ld' = IF stream.end = "empty" THEN LdIdle
                      ELSE [pc |-> "More", stream |-> stream, i |-> 1,
                            cred |-> ZeroCred, pre |-> <<store, perms>>,
                            post |-> <<r.store, r.perms>>]
             /\ last' = LoadStepped(stream.end = "empty")
    /\ UNCHANGED <<c, store, perms, UseCache, hashCache, mu, th>>

\* for dec.More() { err := dec.Decode(&cred) ... }, and the return after the
\* loop or on an element that does not decode
LoadMore ==
    /\ ld.pc = "More"
    /\ ld' = IF ld.i <= Len(ld.stream.items)
             THEN [ld EXCEPT !.pc = "store",
                             !.cred = Decode(ld.cred, ld.stream.items[ld.i])]
             ELSE LdIdle
    /\ last' = LoadStepped(ld.i > Len(ld.stream.items) /\ ld.stream.end # "]")
    /\ UNCHANGED <<c, store, perms, UseCache, hashCache, loads, mu, th>>

\* c.store[cred.Username] = cred.Password
LoadStore ==
    /\ ld.pc = "store"
    /\ store' = [store EXCEPT ![ld.cred.Username] = Some(ld.cred.Password)]
    /\ ld' = [ld EXCEPT !.pc = "make"]
    /\ last' = LoadStepped(FALSE)
    /\ UNCHANGED <<c, perms, UseCache, hashCache, loads, mu, th>>

\* c.perms[cred.Username] = make(map[string]bool, len(cred.Perms))
LoadMake ==
    /\ ld.pc = "make"
    /\ perms' = [perms EXCEPT ![ld.cred.Username] = Some({})]
    /\ ld' = [ld EXCEPT !.pc = "range"]
    /\ last' = LoadStepped(FALSE)
    /\ UNCHANGED <<c, store, UseCache, hashCache, loads, mu, th>>

\* for _, p := range cred.Perms { c.perms[cred.Username][p] = true }: one
\* iteration, or the end of the range
LoadRange ==
    /\ ld.pc = "range"
    /\ LET u == ld.cred.Username
           rest == ld.cred.Perms \ Val(perms[u])
       IN  IF rest # {}
           THEN /\ \E p \in rest :
                     perms' = [perms EXCEPT ![u] = Some(Val(perms[u]) \cup {p})]
                /\ ld' = ld
           ELSE /\ perms' = perms
                /\ ld' = [ld EXCEPT !.pc = "More", !.i = ld.i + 1]
    /\ last' = LoadStepped(FALSE)
    /\ UNCHANGED <<c, store, UseCache, hashCache, loads, mu, th>>

\* A map read of another thread overlaps a map write of Load: the runtime may
\* stop the process ("concurrent map read and map write").
ConcurrentMapFatal ==
    /\ ld.pc \in {"store", "make", "range"}
    /\ ld' = [ld EXCEPT !.pc = "fatal"]
    /\ last' = LoadStepped(TRUE)
    /\ UNCHANGED <<c, store, perms, UseCache, hashCache, loads, mu, th>>

\* Check, HasPerm and AA called by another thread of the running process.
LiveCheck == ld.pc # "fatal" /\ Check

LiveHasPerm == ld.pc # "fatal" /\ HasPermCall

LiveAA == ld.pc # "fatal" /\ AA

\* The store serving queries after its construction.
Next ==
    \/ SetUseCache
    \/ Check
    \/ Password
    \/ HasPermCall
    \/ HasAnyPermCall
    \/ AA

Spec == Init /\ [][Next]_vars

\* The store reloaded while it serves password checks.
NextReload ==
    \/ Load
    \/ SetUseCache
    \/ Check

SpecReload == Init /\ [][NextReload]_vars

\* The store behind the request wrappers.
NextRequest ==
    \/ CheckRequest
    \/ HasPermRequest

SpecRequest == Init /\ [][NextRequest]_vars

\* Threads calling HashCache.Check, HashCache.Store and Check, one call each.
NextCache ==
    \E t \in Threads :
        \/ StartHashCacheCheck(t)
        \/ StartHashCacheStore(t)
        \/ StartCheck(t)
        \/ ThreadStep(t)

SpecCache == InitThreads /\ [][NextCache]_vars

\* The same under a fair scheduler: a thread that can take a step takes one.
SpecCacheFair == SpecCache /\ \A t \in Threads : WF_vars(ThreadStep(t))

\* Threads calling Check, one call each.
NextCheck ==
    \E t \in Threads :
        \/ StartCheck(t)
        \/ ThreadStep(t)

SpecCheck == InitThreads /\ [][NextCheck]_vars

\* Load running on the store while other threads call Check, HasPerm and AA.
NextLive ==
    \/ LoadToken
    \/ LoadMore
    \/ LoadStore
    \/ LoadMake
    \/ LoadRange
    \/ ConcurrentMapFatal
    \/ LiveCheck
    \/ LiveHasPerm
    \/ LiveAA

SpecLive == InitLive /\ [][NextLive]_vars

TypeOK ==
    /\ c \in {"nil", "store"}
    /\ DOMAIN store = Usernames
    /\ \A u \in Usernames : (store[u] = None) = (perms[u] = None)
    /\ UseCache \in BOOLEAN
    /\ loads \in 0..MaxLoads
\* ---- what the claims speak of ------------------------------------------------
\* username's own permission set contains perm
Holds(username, perm) ==
    perms[username] # None /\ perm \in Val(perms[username])

\* the wildcard identity holds perm or the all-permissions sentinel
WildcardGrants(perm) == Holds(AllUsers, perm) \/ Holds(AllUsers, PermAll)

\* step is one of the steps of trace
InTrace(step, trace) == \E i \in DOMAIN trace : trace[i] = step

\* the (username, password) pairs of the hash cache m
CachePairs(m) ==
    {pair \in Usernames \X Passwords :
        m[pair[1]] # None /\ pair[2] \in Val(m[pair[1]])}

\* thread t is inside the read-locked section of HashCache.Check
InRead(t) == th[t].pc \in {"lookup", "member", "RUnlock"}

\* thread t is inside the write-locked section of HashCache.Store
InWrite(t) == th[t].pc \in {"make", "insert", "Unlock"}

\* the hash cache after the threads' Check calls run one after the other,
\* from thread t on, starting with the cache m
RECURSIVE SeqCache(_, _)
SeqCache(m, t) ==
    IF t > NumThreads THEN m
    ELSE SeqCache(CheckRun(store, UseCache, m, th[t].username, th[t].password).m,
                  t + 1)

\* ---- claims ---------------------------------------------------------------------
\* C1: AA on a nil store returns true for every username, password and perm,
\* and the nil test is the first step AA takes: on a nil store it is the only
\* step, so no permission lookup and no password check comes before it.
C1_NilStoreGrantsFirst ==
    /\ (last.op = "AA" /\ c = "nil") => (last.ret /\ last.trace = <<"nil">>)
    /\ last.op = "AA" => Head(last.trace) = "nil"
    /\ c = "nil" =>
         \A u \in Usernames, p \in Passwords, q \in QueryPerms :
            AARun(c, store, perms, UseCache, hashCache, u, p, q).ret

C1_Witness ==
    /\ c = "nil"
    /\ last.op = "AA"
    /\ last.username = ""
    /\ last.ret

\* C2: on a non-nil store AA(u, p, perm) returns true iff the wildcard holds
\* perm or "all", or u is non-empty, Check(u, p) is true and u or the wildcard
\* holds perm or "all"; a password that does not check is denied even when the
\* user holds perm, and one that checks is denied when nobody holds perm or "all".
C2_AADecision ==
    (last.op = "AA" /\ c = "store") =>
        LET u == last.username
            p == last.password
            q == last.perm[1]
            checks == CheckRun(store, UseCache, hashCache, u, p).ret
            held == Holds(u, q) \/ Holds(u, PermAll) \/ WildcardGrants(q)
        IN  /\ last.ret = (WildcardGrants(q) \/ (u # "" /\ checks /\ held))
            /\ (~WildcardGrants(q) /\ ~checks) => ~last.ret
            /\ ~held => ~last.ret

C2_Witness ==
    /\ c = "store"
    /\ last.op = "AA"
    /\ ~last.ret
    /\ last.username = "bob"
    /\ Holds("bob", last.perm[1])
    /\ ~CheckRun(store, UseCache, hashCache, "bob", last.password).ret

\* C3: when the wildcard holds perm or "all", AA on a non-nil store returns
\* true for every username and password (empty, unknown or wrong ones too),
\* right after the wildcard lookup.
C3_WildcardGrants ==
    /\ (last.op = "AA" /\ c = "store" /\ WildcardGrants(last.perm[1])) =>
           (last.ret /\ last.trace = <<"nil", "HasAnyPerm">>)
    /\ c = "store" =>
         \A u \in Usernames, p \in Passwords, q \in QueryPerms :
            WildcardGrants(q) =>
               AARun(c, store, perms, UseCache, hashCache, u, p, q).ret

C3_Witness ==
    /\ c = "store"
    /\ last.op = "AA"
    /\ last.username = ""
    /\ last.password = Plain("")
    /\ store[""] = None
    /\ WildcardGrants(last.perm[1])
    /\ last.ret

\* C4: on a non-nil store whose wildcard holds neither perm nor "all",
\* AA("", p, perm) returns false for every p, also when the store has an
\* account with the empty username, password p and perm granted.
C4_EmptyUsernameDenied ==
    /\ (last.op = "AA" /\ c = "store" /\ last.username = ""
          /\ ~WildcardGrants(last.perm[1])) => ~last.ret
    /\ c = "store" =>
         \A p \in Passwords, q \in QueryPerms :
            ~WildcardGrants(q) =>
               ~AARun(c, store, perms, UseCache, hashCache, "", p, q).ret

C4_Witness ==
    /\ c = "store"
    /\ last.op = "AA"
    /\ last.username = ""
    /\ ~WildcardGrants(last.perm[1])
    /\ store[""] = Some(last.password)
    /\ (Holds("", last.perm[1]) \/ Holds("", PermAll))
    /\ ~last.ret
\* password matches the value stored for username: it equals it, or the
\* stored value is a hash that verifies it
Matches(username, password) ==
    /\ store[username] # None
    /\ \/ password = Val(store[username])
       \/ CompareHashAndPassword(Val(store[username]), password)

\* the record a JSON object of the load source denotes: an absent key is the
\* empty value
RecordOf(obj) ==
    [username |-> IF obj.username = None THEN "" ELSE Val(obj.username),
     password |-> IF obj.password = None THEN Plain("") ELSE Val(obj.password),
     perms    |-> IF obj.perms = None THEN {} ELSE Val(obj.perms)]

\* C5: in every state reached by Load and Check calls, Check(u, p) returns true
\* iff u is in the password mapping and p matches the value now stored for u.
C5_CheckIffMatches ==
    last.op = "Check" => (last.ret = Matches(last.username, last.password))

\* C6: after a successful load of a record sequence, Check(u, p) is true for
\* every record (u, p, perms) of the sequence.
C6_LoadedRecordsCheck ==
    (last.op = "NewCredentialsStoreFromFile" /\ c = "store" /\ ~last.err) =>
        \A i \in 1..Len(last.stream.items) :
            LET rec == RecordOf(last.stream.items[i])
            IN  CheckRun(store, UseCache, hashCache, rec.username, rec.password).ret

\* C7 as claimed: for a user holding "all", HasAnyPerm is true for every
\* non-empty list of perms.
C7_SentinelSatisfiesAnyList ==
    (last.op = "HasAnyPerm" /\ Len(last.perm) > 0 /\ Holds(last.username, PermAll))
        => last.ret

\* C7 as amended: HasAnyPerm(user, perms...) is true iff one of the listed perms
\* is in the user's or the wildcard's permission set; for a user holding "all"
\* that is the case when "all" itself is listed, and a list of perms that
\* neither of them holds is refused.
C7_HasAnyPermListed ==
    /\ last.op = "HasAnyPerm" =>
         (last.ret = \E i \in 1..Len(last.perm) :
                        Holds(last.username, last.perm[i])
                          \/ Holds(AllUsers, last.perm[i]))
    /\ c = "store" =>
         \A u \in Usernames, l \in PermLists :
            (Holds(u, PermAll) /\ \E i \in 1..Len(l) : l[i] = PermAll)
               => HasAnyPerm(perms, u, l)

C7_Witness ==
    /\ last.op = "HasAnyPerm"
    /\ Holds(last.username, PermAll)
    /\ Len(last.perm) > 0
    /\ ~last.ret

\* C8: HasPerm(u, perm) is true iff perm is in u's permission set or in the
\* wildcard's, for usernames absent from the store too, whatever the passwords,
\* the cache mode and the hash cache are.
C8_HasPermIffHeld ==
    /\ last.op = "HasPerm" =>
         (last.ret = (Holds(last.username, last.perm[1])
                        \/ Holds(AllUsers, last.perm[1])))
    /\ c = "store" =>
         \A u \in Usernames, q \in QueryPerms :
            Holds(AllUsers, q) => HasPerm(perms, u, q)

C8_Witness ==
    /\ last.op = "HasPerm"
    /\ store[last.username] = None
    /\ perms[last.username] = None
    /\ Holds(AllUsers, last.perm[1])
    /\ last.ret

\* C9: a load that fails part-way leaves none of the stream's records in the
\* store, and NewCredentialsStoreFromFile hands back no partially loaded store
\* together with the error.
C9_LoadAllOrNothing ==
    (last.op = "NewCredentialsStoreFromFile" /\ last.err) =>
        (c = "nil" \/ (store = EmptyMap /\ perms = EmptyMap))

\* C10 as claimed: once Check(u, p) has succeeded through the hash comparison,
\* the pair is in the hash cache and every later Check(u, p) with cache mode
\* enabled returns true at the cache-lookup step.
C10_LaterCheckAtCacheStep ==
    /\ (last.op = "Check" /\ "Store" \in {last.trace[i] : i \in 1..Len(last.trace)})
          => HashCacheCheck(hashCache, last.username, last.password)
    /\ (last.op = "Check" /\ last.cached /\ UseCache)
          => (last.ret /\ last.trace = <<"store", "equal", "cache">>)

\* C10 as amended: once Check(u, p) has succeeded through the hash comparison,
\* the pair is in the hash cache and every later Check(u, p) with cache mode
\* enabled returns true without another hash comparison: at the cache-lookup
\* step, or before it at the equality step when a later Load has made p the
\* stored value.
C10_LaterCheckWithoutHashing ==
    /\ (last.op = "Check" /\ "Store" \in {last.trace[i] : i \in 1..Len(last.trace)})
          => HashCacheCheck(hashCache, last.username, last.password)
    /\ (last.op = "Check" /\ last.cached /\ UseCache)
          => /\ last.ret
             /\ last.trace \in {<<"store", "equal">>, <<"store", "equal", "cache">>}

C10_Witness ==
    /\ last.op = "Check"
    /\ last.cached
    /\ UseCache
    /\ last.ret
    /\ last.trace = <<"store", "equal", "cache">>
\* C11: a non-nil store loaded from an empty record sequence denies everything:
\* Check, HasPerm, HasAnyPerm and AA return false for all arguments (a nil
\* store grants, C1).
C11_EmptyStoreDenies ==
    (c = "store" /\ store = EmptyMap /\ perms = EmptyMap) =>
        /\ last.op \in {"Check", "HasPerm", "HasAnyPerm", "AA"} => ~last.ret
        /\ \A u \in Usernames, p \in Passwords :
              ~CheckRun(store, UseCache, hashCache, u, p).ret
        /\ \A u \in Usernames, q \in QueryPerms : ~HasPerm(perms, u, q)
        /\ \A u \in Usernames, l \in PermLists : ~HasAnyPerm(perms, u, l)
        /\ \A u \in Usernames, p \in Passwords, q \in QueryPerms :
              ~AARun(c, store, perms, UseCache, hashCache, u, p, q).ret

C11_Witness ==
    /\ c = "store"
    /\ store = EmptyMap
    /\ perms = EmptyMap
    /\ last.op = "Check"
    /\ last.username = ""
    /\ last.password = Plain("")
    /\ ~last.ret
\* C14: every (username, password) pair of the hash cache was added by a Check
\* whose hash comparison succeeded: a step that changes the cache is a Check
\* (alone or inside AA) that missed the plaintext comparison and the cache, ran
\* the hash comparison with success and added exactly its own pair; no pair is
\* ever removed.
C14_CacheOnlyFromHashedCheck ==
    [][ /\ CachePairs(hashCache) \subseteq CachePairs(hashCache')
        /\ \A u \in Usernames : hashCache[u] # None => hashCache'[u] # None
        /\ hashCache' # hashCache =>
             LET u == last'.username
                 p == last'.password
             IN  /\ last'.op \in {"Check", "AA"}
                 /\ last'.op = "Check" => last'.ret
                 /\ InTrace("bcrypt", last'.trace)
                 /\ InTrace("Store", last'.trace)
                 /\ store[u] # None
                 /\ p # Val(store[u])
                 /\ ~(UseCache /\ HashCacheCheck(hashCache, u, p))
                 /\ CompareHashAndPassword(Val(store[u]), p)
                 /\ CachePairs(hashCache') = CachePairs(hashCache) \cup {<<u, p>>}
      ]_vars

C14_Witness ==
    /\ last.op = "Check"
    /\ last.ret
    /\ InTrace("Store", last.trace)
    /\ CachePairs(hashCache) = {<<last.username, last.password>>}

\* C15: Password, HasPerm, HasAnyPerm, AA and Check leave the credential and
\* permission mappings (and UseCache) as they were; Password, HasPerm,
\* HasAnyPerm and every Check that returns false leave the hash cache as it
\* was; the one change of state is the insertion a successful hash-path Check
\* makes.
C15_QueriesFrame ==
    [][ LET op == last'.op
        IN  /\ op \in {"Password", "HasPerm", "HasAnyPerm", "AA", "Check"} =>
                 /\ store' = store
                 /\ perms' = perms
                 /\ UseCache' = UseCache
                 /\ c' = c
            /\ op \in {"Password", "HasPerm", "HasAnyPerm"} =>
                 hashCache' = hashCache
            /\ (op = "Check" /\ ~last'.ret) => hashCache' = hashCache
            /\ (op \in {"Check", "AA"} /\ ~InTrace("Store", last'.trace)) =>
                 hashCache' = hashCache
      ]_vars

C15_Witness ==
    /\ last.op = "Check"
    /\ ~last.ret
    /\ InTrace("bcrypt", last.trace)
    /\ store[last.username] # None
    /\ hashCache = EmptyMap

\* C16: AA looks at the wildcard identity before it authenticates: when the
\* wildcard grants the permission AA returns true with no Check call and no hash
\* comparison and leaves the hash cache as it was, even when (u, p) is a valid
\* hashed credential the cache does not hold; Check is called only when the
\* wildcard does not grant and the username is not empty.
C16_WildcardBeforeCheck ==
    [][ (last'.op = "AA" /\ c = "store") =>
          LET q == last'.perm[1]
              t == last'.trace
          IN  /\ WildcardGrants(q) =>
                   /\ last'.ret
                   /\ ~InTrace("Check", t)
                   /\ ~InTrace("bcrypt", t)
                   /\ hashCache' = hashCache
              /\ InTrace("Check", t) =>
                   /\ ~WildcardGrants(q)
                   /\ last'.username # ""
                   /\ \E i, j \in DOMAIN t :
                        i < j /\ t[i] = "HasAnyPerm" /\ t[j] = "Check"
      ]_vars

C16_Witness ==
    /\ last.op = "AA"
    /\ c = "store"
    /\ WildcardGrants(last.perm[1])
    /\ last.ret
    /\ store[last.username] # None
    /\ CompareHashAndPassword(Val(store[last.username]), last.password)
    /\ hashCache = EmptyMap
\* C17: Load is last-wins per username: after a load, the stored password and
\* the permission set of every username of the sequence are exactly those of
\* the last record with that username, the permissions of earlier records
\* replaced and not merged.
C17_LastRecordWins ==
    (last.op = "NewCredentialsStoreFromFile" /\ c = "store" /\ ~last.err) =>
        LET items == last.stream.items
        IN  \A i \in 1..Len(items) :
              LET rec == RecordOf(items[i])
              IN  (\A j \in (i + 1)..Len(items) :
                      RecordOf(items[j]).username # rec.username)
                  => /\ store[rec.username] = Some(rec.password)
                     /\ perms[rec.username] = Some(rec.perms)
\* C20: the request wrappers deny a request without credentials and otherwise
\* delegate: CheckRequest(b) is true iff b.BasicAuth() reports present and
\* Check(username, password) is true; HasPermRequest(b, perm) is false when
\* BasicAuth reports not present, even if the wildcard holds perm, and otherwise
\* equals HasPerm(username, perm); each wrapper calls b.BasicAuth() once.
C20_RequestWrappers ==
    [][ LET u == last'.username
            t == last'.trace
            once == Cardinality({i \in DOMAIN t : t[i] = "BasicAuth"}) = 1
        IN  /\ last'.op = "CheckRequest" =>
                 /\ last'.ret =
                      (last'.present /\
                         CheckRun(store, UseCache, hashCache, u, last'.password).ret)
                 /\ once
            /\ last'.op = "HasPermRequest" =>
                 /\ ~last'.present => ~last'.ret
                 /\ last'.present => (last'.ret = HasPerm(perms, u, last'.perm[1]))
                 /\ once
      ]_vars

C20_Witness ==
    /\ last.op = "HasPermRequest"
    /\ ~last.present
    /\ ~last.ret
    /\ WildcardGrants(last.perm[1])
    /\ HasPerm(perms, last.username, last.perm[1])
\* C12: under every interleaving of HashCache.Check and HashCache.Store calls,
\* a Store is never inside its critical section together with another Store or
\* a Check, while several Checks may be inside theirs at once; so no Check sees
\* a per-user set that a Store has made and not yet filled.
C12_StoreExcludesAll ==
    /\ \A t, s \in Threads :
          (InWrite(t) /\ s # t) => (~InWrite(s) /\ ~InRead(s))
    /\ (\E t \in Threads : InRead(t)) =>
          \A u \in Usernames : hashCache[u] # Some({})
    /\ \A t \in Threads : InWrite(t) = (mu.writer = {t})
    /\ \A t \in Threads : InRead(t) = (t \in mu.readers)

C12_Witness ==
    \E t, s \in Threads :
        /\ t # s
        /\ InRead(t)
        /\ InRead(s)

\* C13: under fair scheduling every call the threads make to HashCache.Check,
\* HashCache.Store and Check gets the lock it needs, releases it and returns;
\* no call waits forever.
C13_EveryCallReturns ==
    \A t \in Threads : (th[t].pc # "idle") ~> (th[t].pc = "done")

C13_Witness ==
    /\ \A t \in Threads : th[t].pc = "done"
    /\ \E t \in Threads : th[t].op = "HashCache.Store"
    /\ \E t \in Threads : th[t].op = "Check" /\ th[t].ret
    /\ mu = MuFree

\* C19: Check looks the cache up and inserts into it under separate lock
\* acquisitions, and still every one of the concurrent Check calls returns what
\* it returns when run alone on the loaded store, and once all have returned
\* the hash cache is the one a sequential execution of the calls leaves.
C19_CheckInterleavingIndependent ==
    /\ \A t \in Threads :
          th[t].pc = "done" =>
             th[t].ret = CheckRun(store, UseCache, EmptyMap,
                                  th[t].username, th[t].password).ret
    /\ (\A t \in Threads : th[t].pc = "done") =>
          hashCache = SeqCache(EmptyMap, 1)

C19_Witness ==
    /\ \A t \in Threads : th[t].pc = "done" /\ th[t].ret
    /\ \E t, s \in Threads :
          /\ t # s
          /\ th[t].username = th[s].username
          /\ th[t].password = th[s].password
    /\ UseCache
    /\ hashCache # EmptyMap
\* C18: when Load runs while other threads call Check, HasPerm or AA, the new
\* contents are installed atomically: a reader that runs during the Load sees
\* the mappings as they were before the Load or as they are after it, never a
\* password installed with its permission set still empty or partly filled, nor
\* only some of the stream's records.
C18_ReadersSeeOldOrNew ==
    (ld.pc \notin {"idle", "fatal"} /\ last.op \in {"Check", "HasPerm", "AA"}) =>
        <<store, perms>> \in {ld.pre, ld.post}
====
